---- MODULE Spec2Model ----
(***************************************************************************)
(* OpenTrace web client.                                                   *)
(*                                                                         *)
(* Part one: the dagre layout of a trace graph (web/src/graph/layout.ts,   *)
(* applyDagreLayout).  A layout call is one synchronous function call.     *)
(* The input node objects live in a heap so that "returns fresh objects,   *)
(* never mutates its input" is something the model can get wrong.  The     *)
(* layered layout itself is the dagre library's; it is modelled here as    *)
(* the layered algorithm of the design document (ranking, ordering,        *)
(* coordinates), with graphlib's setNode / setEdge semantics.              *)
(*                                                                         *)
(* Part two: the page (web/src/App.tsx), its canvas                        *)
(* (web/src/components/FlowCanvas.tsx) and the chat panel's turn           *)
(* (web/src/components/ChatPanel.tsx, sendMessage).  One action is one     *)
(* event handler or one continuation of an awaited request, together with  *)
(* the render and the effects that follow it.                              *)
(*                                                                         *)
(* Part three: the chat panel's approval of actions (ChatSpec) and the     *)
(* repository controls (web/src/components/RepoInput.tsx) with App's       *)
(* activeRepo (RepoSpec).  Each specification moves its own component and  *)
(* leaves the others at their state after mount.                           *)
(***************************************************************************)
EXTENDS Integers, Sequences, FiniteSets, TLC

VARIABLES
    pc,          \* "idle" before the call, then "done", "thrown" or "hung"
    nodes,       \* the nodes argument: a sequence of heap references
    edges,       \* the edges argument: a sequence of FlowEdge records
    options,     \* the options argument (a field may be absent)
    heap,        \* reference -> FlowNode object
    dagreGraph,  \* the dagre graph built and laid out by the call
    ranks,       \* node id -> rank given by the layout (layout-internal)
    result,      \* the returned value, or None
    error        \* the error thrown, or "none"

VARIABLES
    selectedTraceId,   \* App: None or Some(trace id)
    flowData,          \* App: None or Some(FlowGraph object)
    selectedNode,      \* App: None or Some(NodeData)
    highlightedNodes,  \* App: the node ids to emphasise
    highlightedEdges,  \* App: the edge ids to emphasise
    viewMode,          \* App: "runtime" or "static"
    loading,           \* App: a flow request has not settled
    appError,          \* App's error state: None or Some(message)
    requests,          \* flow requests in flight
    fetches,           \* number of flow requests started so far
    rfNodes,           \* FlowCanvas: the nodes state (useNodesState)
    rfEdges,           \* FlowCanvas: the edges state (useEdgesState)
    layoutCalls,       \* number of calls of applyDagreLayout by the canvas
    layoutError,       \* what the canvas's last layout call threw, or "none"
    crashed,           \* an error left a component uncaught: the page is gone
    chatLoading,       \* ChatPanel: the loading state
    lastResponse       \* ChatPanel: None, or Some(response) of the last turn

VARIABLES
    chatRequests,      \* ChatPanel: api.chat calls that have not settled
    pendingAction,     \* ChatPanel: None or Some(ActionRequest object)
    proposed,          \* number of actions the assistant has proposed so far
    executeCalls,      \* the api.executeAction calls made, in order: the action of each
    executing,         \* the api.executeAction calls that have not settled
    cancelledActions   \* the actions the user has cancelled

VARIABLES
    repo,              \* RepoInput: None or Some(RepoInfo)
    repoLoading,       \* RepoInput: the loading state
    repoError,         \* RepoInput: None or Some(message)
    repoRequests,      \* RepoInput: repository API calls that have not settled
    repoCalls,         \* number of repository API calls started so far
    pollTimers,        \* RepoInput: timers of pollStatus that have not fired
    activeRepo         \* App: None or Some(RepoInfo)

layoutVars == <<pc, nodes, edges, options, heap, dagreGraph, ranks, result, error>>
appVars == <<selectedTraceId, flowData, selectedNode, highlightedNodes,
             highlightedEdges, viewMode, loading, appError, requests, fetches>>
canvasVars == <<rfNodes, rfEdges, layoutCalls, layoutError, crashed>>
chatVars == <<chatLoading, lastResponse>>
panelVars == <<chatRequests, pendingAction, proposed, executeCalls, executing,
               cancelledActions>>
repoVars == <<repo, repoLoading, repoError, repoRequests, repoCalls, pollTimers,
              activeRepo>>

vars == <<layoutVars, appVars, canvasVars, chatVars, panelVars, repoVars>>

----------------------------------------------------------------------------
(* Bounds of the model and the input domain *)

MaxEdges == 3

\* the node ids, in the order the API lists them
NodeOrder == <<"B", "A", "C">>
Ids == {NodeOrder[i] : i \in DOMAIN NodeOrder}
\* a direction that was not given
Undefined == "undefined"
\* an optional value: None (undefined, null) or Some(x)
None == <<>>
Some(x) == <<x>>

NODE_WIDTH == 220
NODE_HEIGHT == 80

Directions == {"TB", "LR", "BT", "RL"}

Range(s) == {s[i] : i \in DOMAIN s}

\* the function f as a table of its values (f itself, computed once)
Table(f) == f @@ <<>>

Min(S) == CHOOSE x \in S : \A y \in S : x <= y
Max(S) == CHOOSE x \in S : \A y \in S : x >= y

\* node id lists: identifiers are unique within a graph.  Every list is a
\* prefix of NodeOrder; the edges range over all ids, so every shape of graph
\* relative to the input order occurs, and an id outside the list is dangling
NodeIdLists == {SubSeq(NodeOrder, 1, n) : n \in 0..Len(NodeOrder)}

EdgeId(i) == <<"e", i>>

\* edge lists: any endpoints, dangling ones included, self-loops and cycles too
EdgePairLists == UNION {[1..n -> Ids \X Ids] : n \in 0..MaxEdges}

\* the node kind and payload sent by the API are fixed per id
TypeOf(id) == CASE id = "A" -> "span" [] id = "B" -> "service" [] OTHER -> ""
DataOf(id) == [spanId |-> id, status |-> IF id = "C" THEN "error" ELSE "success"]

InputNode(id) == [id |-> id, type |-> TypeOf(id), data |-> DataOf(id),
                  position |-> [x |-> 0, y |-> 0]]

InputEdge(p, i) == [id |-> EdgeId(i), source |-> p[1], target |-> p[2],
                    animated |-> (i = 1)]

Opt(d, n, r) == [direction |-> d, nodeSpacing |-> n, rankSpacing |-> r]

\* the options argument: {} (all defaults), each direction, an unknown
\* direction, spacings that are not positive, and positive ones off the defaults
OptionSets ==
    {Opt(d, None, None) : d \in {Undefined, "LR", "BT", "RL", "XX"}}
    \cup {Opt(Undefined, Some(0), None), Opt(Undefined, None, Some(-100)),
          Opt("LR", Some(60), Some(20))}

----------------------------------------------------------------------------
(* graphlib.Graph as applyDagreLayout uses it *)

\* new dagre.graphlib.Graph()
NewGraph == [graph |-> None, order |-> <<>>, label |-> <<>>, edges |-> <<>>]

HasNode(g, v) == v \in Range(g.order)

\* Graph.setNode(v, label): insertion order is kept, a known node is relabelled
SetNode(g, v, lbl) ==
    IF HasNode(g, v)
    THEN [g EXCEPT !.label = [u \in Range(g.order) |-> IF u = v THEN lbl ELSE g.label[u]]]
    ELSE [g EXCEPT !.order = Append(g.order, v),
                   !.label = [u \in Range(g.order) \cup {v} |-> IF u = v THEN lbl ELSE g.label[u]]]

\* Graph.setNode(v): an unknown node is created with the default label, undefined (None)
EnsureNode(g, v) == IF HasNode(g, v) THEN g ELSE SetNode(g, v, None)

\* Graph.setEdge(v, w): creates missing endpoints; one edge per (v, w)
SetEdge(g, v, w) ==
    LET g1 == EnsureNode(EnsureNode(g, v), w)
    IN  IF <<v, w>> \in Range(g1.edges) THEN g1
        ELSE [g1 EXCEPT !.edges = Append(g1.edges, <<v, w>>)]

----------------------------------------------------------------------------
(* applyDagreLayout, lines 191-219: options and graph construction *)

\* const { direction = 'TB', nodeSpacing = 50, rankSpacing = 80 } = options
Destructure(o) ==
    [direction   |-> IF o.direction = Undefined THEN "TB" ELSE o.direction,
     nodeSpacing |-> IF o.nodeSpacing = None THEN 50 ELSE o.nodeSpacing[1],
     rankSpacing |-> IF o.rankSpacing = None THEN 80 ELSE o.rankSpacing[1]]

\* GraphConfig with the two spacings passed the wrong way round
GraphConfigSwapped(o) ==
    [rankdir |-> o.direction, nodesep |-> o.rankSpacing, ranksep |-> o.nodeSpacing,
     marginx |-> 20, marginy |-> 20]

\* dagreGraph.setGraph({ rankdir, nodesep, ranksep, marginx: 20, marginy: 20 })
GraphConfig(o) ==
    [rankdir |-> o.direction, nodesep |-> o.nodeSpacing, ranksep |-> o.rankSpacing,
     marginx |-> 20, marginy |-> 20]

RECURSIVE AddNodes(_, _, _, _)
\* nodes.forEach(node => dagreGraph.setNode(node.id, { width, height }))
AddNodes(g, hp, ns, i) ==
    IF i > Len(ns) THEN g
    ELSE AddNodes(SetNode(g, hp[ns[i]].id, Some([width |-> NODE_WIDTH, height |-> NODE_HEIGHT])),
                  hp, ns, i + 1)

RECURSIVE AddEdgesReversed(_, _, _)
\* AddEdges with source and target passed the wrong way round
AddEdgesReversed(g, es, i) ==
    IF i > Len(es) THEN g
    ELSE AddEdgesReversed(SetEdge(g, es[i].target, es[i].source), es, i + 1)

RECURSIVE AddEdges(_, _, _)
\* edges.forEach(edge => dagreGraph.setEdge(edge.source, edge.target))
AddEdges(g, es, i) ==
    IF i > Len(es) THEN g
    ELSE AddEdges(SetEdge(g, es[i].source, es[i].target), es, i + 1)

BuildGraph(hp, ns, es, o) ==
    AddEdges(AddNodes([NewGraph EXCEPT !.graph = Some(GraphConfig(Destructure(o)))], hp, ns, 1), es, 1)

----------------------------------------------------------------------------
(* dagre.layout(dagreGraph): the layered layout (ranking, ordering,        *)
(* coordinates), on the graph as graphlib holds it                        *)

\* buildLayoutGraph: a node without a label gets the default size 0 x 0
Dim(g, v) ==
    IF g.label[v] = None THEN [width |-> 0, height |-> 0]
    ELSE [width |-> g.label[v][1].width, height |-> g.label[v][1].height]

\* self-loops take no part in ranking
NonSelfEdges(g) == SelectSeq(g.edges, LAMBDA e : e[1] # e[2])

OutEdges(es, v) == SelectSeq(es, LAMBDA e : e[1] = v)

RECURSIVE Dfs(_, _, _), DfsEdges(_, _, _, _), DfsAll(_, _, _, _)
\* depth-first search in insertion order; an edge into a node still on the
\* stack is a back edge
Dfs(es, v, st) ==
    IF v \in st.visited THEN st
    ELSE LET entered == [st EXCEPT !.visited = @ \cup {v}, !.stack = @ \cup {v}]
             left == DfsEdges(es, OutEdges(es, v), 1, entered)
         IN  [left EXCEPT !.stack = @ \ {v}]

DfsEdges(es, out, i, st) ==
    IF i > Len(out) THEN st
    ELSE DfsEdges(es, out, i + 1,
                  IF out[i][2] \in st.stack
                  THEN [st EXCEPT !.fas = @ \cup {out[i]}]
                  ELSE Dfs(es, out[i][2], st))

DfsAll(es, order, i, st) ==
    IF i > Len(order) THEN st
    ELSE DfsAll(es, order, i + 1, Dfs(es, order[i], st))

\* FeedbackArcs that detects no revisit: every edge is kept for ranking
FeedbackArcsNone(g) == {}

\* the back edges (a feedback arc set) of the graph
FeedbackArcs(g) ==
    DfsAll(NonSelfEdges(g), g.order, 1, [visited |-> {}, stack |-> {}, fas |-> {}]).fas

\* the edges that ranking follows: no self-loop, no back edge
RankEdges(g) == Range(NonSelfEdges(g)) \ FeedbackArcs(g)

\* one round of longest-path relaxation: a source keeps rank 0
Relax(V, E, r) ==
    Table([v \in V |-> Max({0} \cup {r[e[1]] + 1 : e \in {d \in E : d[2] = v}})])

RECURSIVE LongestPath(_, _, _, _)
\* relax until nothing changes; on a graph with a cycle left in it the
\* rounds never settle, which the budget of rounds makes visible
LongestPath(V, E, r, fuel) ==
    LET r2 == Relax(V, E, r)
    IN  IF r2 = r THEN [ok |-> TRUE, rank |-> r]
        ELSE IF fuel = 0 THEN [ok |-> FALSE, rank |-> r]
        ELSE LongestPath(V, E, r2, fuel - 1)

\* rank = longest path distance from a source
Rank(g, E) ==
    LongestPath(Range(g.order), E, Table([v \in Range(g.order) |-> 0]),
                Cardinality(Range(g.order)))

IndexOf(s, x) == CHOOSE i \in DOMAIN s : s[i] = x

RECURSIVE SetSum(_, _)
\* the sum of f[x] over the x in S
SetSum(f, S) ==
    IF S = {} THEN 0 ELSE LET x == CHOOSE y \in S : TRUE IN f[x] + SetSum(f, S \ {x})

\* the nodes of rank r in insertion (input) order
LayerOf(g, rk, r) == SelectSeq(g.order, LAMBDA v : rk[v] = r)

\* ordering of one rank below the top: by the barycenter of the predecessors
\* in the (ordered) rank above, ties by input order
OrderLayer(init, above, E) ==
    LET pos == Table([u \in Range(above) |-> IndexOf(above, u)])
        sum == Table([v \in Range(init) |->
                        SetSum(pos, {e[1] : e \in {d \in E : d[2] = v /\ d[1] \in Range(above)}})])
        cnt == Table([v \in Range(init) |->
                        Cardinality({e[1] : e \in {d \in E : d[2] = v /\ d[1] \in Range(above)}})])
        Before(u, v) ==
            \/ sum[u] * cnt[v] < sum[v] * cnt[u]
            \/ /\ sum[u] * cnt[v] = sum[v] * cnt[u]
               /\ IndexOf(init, u) < IndexOf(init, v)
    IN  Table([i \in 1..Len(init) |->
                 CHOOSE v \in Range(init) :
                     Cardinality({u \in Range(init) : Before(u, v)}) = i - 1])

RECURSIVE OrderedLayers(_, _, _, _, _)
\* the ranks 0..maxRank, each ordered; rank 0 stays in input order
OrderedLayers(g, E, rk, maxRank, acc) ==
    IF Len(acc) > maxRank THEN acc
    ELSE LET r == Len(acc)
             init == LayerOf(g, rk, r)
         IN  OrderedLayers(g, E, rk, maxRank,
                           Append(acc, IF r = 0 THEN init ELSE OrderLayer(init, acc[r], E)))

\* coordinate assignment: node centers, before margins
Coordinates(g, E, rk) ==
    LET cfg == g.graph[1]
        V == Range(g.order)
        swap == cfg.rankdir \in {"LR", "RL"}
        flip == cfg.rankdir \in {"BT", "RL"}
        W == Table([v \in V |-> IF swap THEN Dim(g, v).height ELSE Dim(g, v).width])
        H == Table([v \in V |-> IF swap THEN Dim(g, v).width ELSE Dim(g, v).height])
        maxRank == Max({0} \cup {rk[v] : v \in V})
        layer == OrderedLayers(g, E, rk, maxRank, <<>>)
        layerHeight == Table([r \in 0..maxRank |-> Max({0} \cup {H[v] : v \in Range(layer[r + 1])})])
        step == Table([r \in 0..maxRank |-> layerHeight[r] + cfg.ranksep])
        rowWidth == Table([r \in 0..maxRank |->
                            SetSum(W, Range(layer[r + 1])) + (Len(layer[r + 1]) - 1) * cfg.nodesep])
        widest == Max({rowWidth[r] : r \in 0..maxRank})
        pitch == Table([u \in V |-> W[u] + cfg.nodesep])
        cross(v) ==
            LET row == layer[rk[v] + 1]
                j == IndexOf(row, v)
            IN  (widest - rowWidth[rk[v]]) \div 2
                + SetSum(pitch, {row[i] : i \in 1..(j - 1)}) + W[v] \div 2
        primary(v) == SetSum(step, 0..(rk[v] - 1)) + layerHeight[rk[v]] \div 2
        oriented(v) == IF flip THEN 0 - primary(v) ELSE primary(v)
    IN  Table([v \in V |->
                 IF swap THEN [x |-> oriented(v), y |-> cross(v)]
                 ELSE [x |-> cross(v), y |-> oriented(v)]])

\* translateGraph: the bounding box starts at (marginx, marginy)
Translate(g, c) ==
    LET cfg == g.graph[1]
        V == Range(g.order)
        minX == Min({c[v].x - Dim(g, v).width \div 2 : v \in V})
        minY == Min({c[v].y - Dim(g, v).height \div 2 : v \in V})
    IN  Table([v \in V |-> [x |-> c[v].x - minX + cfg.marginx, y |-> c[v].y - minY + cfg.marginy]])

\* updateInputGraph: x and y are written into the labels that exist
UpdateInputGraph(g, c) ==
    [g EXCEPT !.label =
        [v \in Range(g.order) |->
            IF g.label[v] = None THEN None
            ELSE Some([width |-> g.label[v][1].width, height |-> g.label[v][1].height,
                       x |-> c[v].x, y |-> c[v].y])]]

\* dagre.layout(g): ok is FALSE when ranking does not come to an end
DagreLayout(g) ==
    LET E == RankEdges(g)
        rk == Rank(g, E)
    IN  IF ~rk.ok THEN [ok |-> FALSE, graph |-> g, rank |-> rk.rank]
        ELSE [ok |-> TRUE, rank |-> rk.rank,
              graph |-> UpdateInputGraph(g, Translate(g, Coordinates(g, E, rk.rank)))]

----------------------------------------------------------------------------
(* applyDagreLayout, lines 225-240: positions applied to fresh node objects *)

\* dagreGraph.node(id): the label, undefined (None) for an unknown id
NodeLabel(g, v) == IF HasNode(g, v) THEN g.label[v] ELSE None

\* TopLeft without the conversion: the center itself
TopLeftIsCenter(lbl) == [x |-> lbl.x, y |-> lbl.y]

\* the top-left corner of a node whose center dagre computed
TopLeft(lbl) == [x |-> lbl.x - NODE_WIDTH \div 2, y |-> lbl.y - NODE_HEIGHT \div 2]

\* LayoutedNodes building its list back to front (unshift for push)
LayoutedNodesUnshift(g, hp, ns) ==
    LET n == Len(ns)
    IN  [error |-> "none",
         refs |-> [i \in 1..n |-> Len(hp) + i],
         heap |-> [r \in 1..(Len(hp) + n) |->
                     IF r <= Len(hp) THEN hp[r]
                     ELSE LET src == hp[ns[n + 1 - (r - Len(hp))]]
                          IN  [src EXCEPT !.position = TopLeft(NodeLabel(g, src.id)[1])]]]

\* LayoutedNodes reading one node past the end of the list
\* (i <= nodes.length): the id of undefined cannot be read
LayoutedNodesOffByOne(g, hp, ns) == [error |-> "TypeError", heap |-> hp, refs |-> <<>>]

\* LayoutedNodes writing the position into the input object and returning it
LayoutedNodesInPlace(g, hp, ns) ==
    [error |-> "none",
     refs |-> ns,
     heap |-> [r \in DOMAIN hp |->
                 IF r \in Range(ns)
                 THEN [hp[r] EXCEPT !.position = TopLeft(NodeLabel(g, hp[r].id)[1])]
                 ELSE hp[r]]]

\* nodes.map(node => ({ ...node, position: {...} })): one fresh object per
\* input node, in input order; reading x of an undefined label throws
LayoutedNodes(g, hp, ns) ==
    LET n == Len(ns)
        lbl(i) == NodeLabel(g, hp[ns[i]].id)
    IN  IF \E i \in 1..n : lbl(i) = None
        THEN [error |-> "TypeError", heap |-> hp, refs |-> <<>>]
        ELSE [error |-> "none",
              refs |-> [i \in 1..n |-> Len(hp) + i],
              heap |-> [r \in 1..(Len(hp) + n) |->
                          IF r <= Len(hp) THEN hp[r]
                          ELSE [hp[ns[r - Len(hp)]] EXCEPT
                                  !.position = TopLeft(lbl(r - Len(hp))[1])]]]

\* LayoutResult returning only the edges the layout ranked (no self-loops)
LayoutResultRankedEdges(refs, es) ==
    [nodes |-> refs, edges |-> SelectSeq(es, LAMBDA e : e.source # e.target)]

\* return { nodes: layoutedNodes, edges }: the edges argument itself
LayoutResult(refs, es) == [nodes |-> refs, edges |-> es]

----------------------------------------------------------------------------
(* The page before any event: the useState initial values of App (lines     *)
(* 17-24), FlowCanvas (lines 40-41) and ChatPanel (line 17)                 *)

PageAtMount ==
    /\ selectedTraceId = None
    /\ flowData = None
    /\ selectedNode = None
    /\ highlightedNodes = {}
    /\ highlightedEdges = {}
    /\ viewMode = "runtime"
    /\ loading = FALSE
    /\ appError = None
    /\ requests = {}
    /\ fetches = 0
    /\ rfNodes = <<>>
    /\ rfEdges = <<>>
    /\ layoutCalls = 0
    /\ layoutError = "none"
    /\ crashed = FALSE
    /\ chatLoading = FALSE
    /\ lastResponse = None
    /\ chatRequests = 0
    /\ pendingAction = None
    /\ proposed = 0
    /\ executeCalls = <<>>
    /\ executing = {}
    /\ cancelledActions = {}
    /\ repo = None
    /\ repoLoading = FALSE
    /\ repoError = None
    /\ repoRequests = {}
    /\ repoCalls = 0
    /\ pollTimers = 0
    /\ activeRepo = None

----------------------------------------------------------------------------
Init ==
    /\ pc = "idle"
    /\ \E ids \in NodeIdLists :
          /\ nodes = [i \in 1..Len(ids) |-> i]
          /\ heap = [i \in 1..Len(ids) |-> InputNode(ids[i])]
    /\ \E ps \in EdgePairLists : edges = [i \in 1..Len(ps) |-> InputEdge(ps[i], i)]
    /\ options \in OptionSets
    /\ dagreGraph = NewGraph
    /\ ranks = <<>>
    /\ result = None
    /\ error = "none"
    /\ PageAtMount

\* one call applyDagreLayout(nodes, edges, options)
ApplyDagreLayout ==
    /\ pc = "idle"
    /\ LET lay == DagreLayout(BuildGraph(heap, nodes, edges, options))
           out == LayoutedNodes(lay.graph, heap, nodes)
       IN  /\ dagreGraph' = lay.graph
           /\ ranks' = lay.rank
           /\ IF ~lay.ok
              THEN pc' = "hung" /\ UNCHANGED <<heap, result, error>>
              ELSE IF out.error # "none"
              THEN pc' = "thrown" /\ error' = out.error /\ UNCHANGED <<heap, result>>
              ELSE /\ pc' = "done"
                   /\ heap' = out.heap
                   /\ result' = Some(LayoutResult(out.refs, edges))
                   /\ UNCHANGED error
    /\ UNCHANGED <<nodes, edges, options>>
    /\ UNCHANGED <<appVars, canvasVars, chatVars, panelVars, repoVars>>

Next == ApplyDagreLayout

Spec == Init /\ [][Next]_vars

----------------------------------------------------------------------------
(* The page: what the servers send *)

MaxFetches == 2

\* api.chat calls outstanding at a time, actions proposed, executeAction calls
MaxChatRequests == 2
MaxActions == 2
MaxCalls == 2

\* repository API calls started
MaxRepoCalls == 5

TraceIds == {"t1", "t2"}

FlowEdgeOf(i, s, t, a) ==
    [id |-> EdgeId(i), source |-> s, target |-> t, animated |-> a]

\* bodies of GET /flows/runtime/:id and GET /flows/static.  A body is used as
\* parsed (return response.json()), so one without a node list reaches the
\* canvas as well.  FlowEdge.animated is optional: absent, true or false
TraceGraph ==
    [nodes |-> Some(<<InputNode("B"), InputNode("A"), InputNode("C")>>),
     edges |-> <<FlowEdgeOf(1, "A", "B", Some(TRUE)),
                 FlowEdgeOf(2, "B", "C", None),
                 FlowEdgeOf(3, "A", "C", Some(FALSE))>>]
SingleGraph == [nodes |-> Some(<<InputNode("B")>>), edges |-> <<>>]
MalformedGraph == [nodes |-> None, edges |-> <<>>]
FlowGraphs == {TraceGraph, SingleGraph, MalformedGraph}

\* AgentResponse.ui of a chat turn: ids of the graph shown, and ids that name
\* nothing in it ("X", edge 9).  An absent ui or list is the empty list
HighlightNodeIds == {"B", "X"}
HighlightEdgeIds == {EdgeId(2), EdgeId(9)}
AgentResponses ==
    [highlightNodes : SUBSET HighlightNodeIds, highlightEdges : SUBSET HighlightEdgeIds]

----------------------------------------------------------------------------
(* FlowCanvas *)

\* applyDagreLayout(data.nodes, data.edges): no options argument
NoOptions == Opt(Undefined, None, None)

\* the value a call returns, or the error it throws, once the layout has run:
\* out is what the mapping of the nodes gave
LayoutReturn(out, es) ==
    IF out.error # "none"
    THEN [error |-> out.error, nodes |-> <<>>, edges |-> <<>>]
    ELSE [error |-> "none",
          nodes |-> [i \in DOMAIN out.refs |-> out.heap[out.refs[i]]],
          edges |-> LayoutResult(out.refs, es).edges]

\* the rest of a call after dagre.layout(dagreGraph) gave lay
AfterLayout(lay, hp, refs, es) ==
    IF ~lay.ok
    THEN [error |-> "hung", nodes |-> <<>>, edges |-> <<>>]
    ELSE LayoutReturn(LayoutedNodes(lay.graph, hp, refs), es)

\* the call applyDagreLayout(ns, es, o) as the value it returns or the error
\* it throws; ns is None when data.nodes is undefined (nodes.forEach throws)
ApplyDagreLayoutOf(ns, es, o) ==
    IF ns = None
    THEN [error |-> "TypeError", nodes |-> <<>>, edges |-> <<>>]
    ELSE AfterLayout(DagreLayout(BuildGraph(ns[1], [i \in 1..Len(ns[1]) |-> i], es, o)),
                     ns[1], [i \in 1..Len(ns[1]) |-> i], es)

\* RfNode passing the kind on as it came
RfNodeKindAsIs(n) ==
    [id |-> n.id, type |-> n.type, position |-> n.position, data |-> n.data]

\* rfNodes: { id, type: node.type || 'span', position, data }
RfNode(n) ==
    [id |-> n.id, type |-> IF n.type = "" THEN "span" ELSE n.type,
     position |-> n.position, data |-> n.data]

\* rfEdges: { id, source, target, animated, style: { stroke, strokeWidth: 2 } }
RfEdge(e) ==
    [id |-> e.id, source |-> e.source, target |-> e.target, animated |-> e.animated,
     style |-> [stroke |-> "#30363d", strokeWidth |-> 2]]

\* the effect after its call of the layout returned or threw
EffectAfterLayout(layouted) ==
    IF layouted.error # "none"
    THEN [error |-> layouted.error, calls |-> 1, nodes |-> <<>>, edges |-> <<>>]
    ELSE [error |-> "none", calls |-> 1,
          nodes |-> Table([i \in DOMAIN layouted.nodes |-> RfNode(layouted.nodes[i])]),
          edges |-> Table([i \in DOMAIN layouted.edges |-> RfEdge(layouted.edges[i])])]

\* the body of the effect: what it sets the nodes and edges state to, whether
\* it called the layout, and the error that escaped it
LayoutEffect(d) ==
    IF d = None
    THEN [error |-> "none", calls |-> 0, nodes |-> <<>>, edges |-> <<>>]
    ELSE EffectAfterLayout(ApplyDagreLayoutOf(d[1].nodes, d[1].edges, NoOptions))

\* EffectDeps that lists the highlight props too
EffectDepsWithHighlights(d, hn, he) == <<d, hn, he>>

\* the dependency list of the effect: [data, setNodes, setEdges]; the two
\* setters never change
EffectDeps(d, hn, he) == <<d>>

\* StyleNodes looking the node's type up in the highlight list
StyleNodesByType(ns, hn) ==
    [i \in DOMAIN ns |->
        [ns[i] EXCEPT !.data = ("highlighted" :> (ns[i].type \in hn)) @@ ns[i].data]]

\* StyleNodes that also moves every node to the origin
StyleNodesAtOrigin(ns, hn) ==
    [i \in DOMAIN ns |->
        [ns[i] EXCEPT !.data = ("highlighted" :> (ns[i].id \in hn)) @@ ns[i].data,
                      !.position = [x |-> 0, y |-> 0]]]

\* styledNodes: { ...node, data: { ...node.data, highlighted: includes(node.id) } }
StyleNodes(ns, hn) ==
    [i \in DOMAIN ns |->
        [ns[i] EXCEPT !.data = ("highlighted" :> (ns[i].id \in hn)) @@ ns[i].data]]

\* a || b of JavaScript for a boolean a and an optional boolean b
JsOr(a, b) == IF a THEN Some(TRUE) ELSE b
\* a && b of JavaScript for a boolean a and an optional boolean b
JsAnd(a, b) == IF a THEN b ELSE Some(FALSE)
Truthy(b) == b = Some(TRUE)

EdgeStyle(inH) ==
    [stroke |-> IF inH THEN "#d29922" ELSE "#30363d",
     strokeWidth |-> IF inH THEN 3 ELSE 2]

\* StyleEdges with && for ||
StyleEdgesAnd(es, he) ==
    [i \in DOMAIN es |->
        [es[i] EXCEPT !.style = EdgeStyle(es[i].id \in he),
                      !.animated = JsAnd(es[i].id \in he, es[i].animated)]]

\* StyleEdges animating every edge
StyleEdgesAnimateAll(es, he) ==
    [i \in DOMAIN es |->
        [es[i] EXCEPT !.style = EdgeStyle(es[i].id \in he),
                      !.animated = Some(TRUE)]]

\* StyleEdges flipping the flag of a highlighted edge
StyleEdgesToggle(es, he) ==
    [i \in DOMAIN es |->
        [es[i] EXCEPT !.style = EdgeStyle(es[i].id \in he),
                      !.animated = IF es[i].id \in he
                                   THEN Some(~Truthy(es[i].animated))
                                   ELSE es[i].animated]]

\* styledEdges: { ...edge, style: { ...edge.style, stroke, strokeWidth },
\*                animated: highlightedEdges.includes(edge.id) || edge.animated }
StyleEdges(es, he) ==
    [i \in DOMAIN es |->
        [es[i] EXCEPT !.style = EdgeStyle(es[i].id \in he),
                      !.animated = JsOr(es[i].id \in he, es[i].animated)]]

\* the two useMemo values handed to ReactFlow
styledNodes == StyleNodes(rfNodes, highlightedNodes)
styledEdges == StyleEdges(rfEdges, highlightedEdges)

\* const nodeTypes = { span: SpanNode }: the kinds the canvas has a template for
NodeTypes == {"span"}

\* ReactFlow choosing the component of a node: the template registered for
\* its type; a node without a type, or with a type nothing is registered
\* for, gets the library's built-in default node
NodeTemplate(t) == IF t \in NodeTypes THEN "SpanNode" ELSE "default"

\* the template each node on the canvas is drawn with
renderedTemplates == [i \in DOMAIN styledNodes |-> NodeTemplate(styledNodes[i].type)]

\* App renders the canvas unless it shows the spinner or the error message
CanvasRendered(l, e) == ~l /\ e = None

\* the canvas once its effect has run
EffectRan(eff) ==
    /\ rfNodes' = eff.nodes
    /\ rfEdges' = eff.edges
    /\ layoutCalls' = layoutCalls + eff.calls
    /\ layoutError' = eff.error
    /\ crashed' = (eff.error # "none")

\* the canvas after a render of App with flowData d, highlight props hn and he,
\* loading l and error e: unmounted, or mounted (the effect runs), or updated
\* (the effect runs when a dependency changed).  An error thrown by the effect
\* is caught nowhere, so React removes the whole page
CanvasCommit(d, hn, he, l, e) ==
    IF ~CanvasRendered(l, e)
    THEN /\ rfNodes' = <<>>
         /\ rfEdges' = <<>>
         /\ UNCHANGED <<layoutCalls, layoutError, crashed>>
    ELSE IF /\ CanvasRendered(loading, appError)
            /\ EffectDeps(d, hn, he) = EffectDeps(flowData, highlightedNodes, highlightedEdges)
    THEN UNCHANGED canvasVars
    ELSE EffectRan(LayoutEffect(d))

----------------------------------------------------------------------------
(* App *)

\* the FlowGraph object a settled request hands to setFlowData: every reply
\* is a new object, told apart by the request it answers; the reply to
\* /flows/runtime/<traceId> is the graph of that trace
FlowObject(r, g) ==
    Some([ident |-> r.id, trace |-> r.trace, nodes |-> g.nodes, edges |-> g.edges])

\* what fetchFlow asks the API for with trace t selected in view mode m:
\* getStaticFlow() in static mode, getRuntimeFlow(selectedTraceId) otherwise
FlowAsked(t, m) == IF m = "static" THEN None ELSE t

\* An event handler has set the trace to t, the view mode to m, the selected
\* node to sn and the highlights to hn and he.  App renders, then its effects
\* run: the effect on [selectedTraceId, viewMode] clears the flow or starts
\* fetchFlow (setLoading(true), setError(null)), the effect on [viewMode]
\* starts fetchStatic (setLoading(true)); then the canvas follows
AfterEvent(t, m, sn, hn, he) ==
    LET depsChanged == <<t, m>> # <<selectedTraceId, viewMode>>
        startFlow   == depsChanged /\ t # None
        clearData   == depsChanged /\ t = None /\ m # "static"
        startStatic == m # viewMode /\ m = "static"
        n == (IF startFlow THEN 1 ELSE 0) + (IF startStatic THEN 1 ELSE 0)
        d == IF clearData THEN None ELSE flowData
        l == loading \/ startFlow \/ startStatic
        e == IF startFlow THEN None ELSE appError
    IN  /\ fetches + n <= MaxFetches
        /\ selectedTraceId' = t
        /\ viewMode' = m
        /\ selectedNode' = sn
        /\ highlightedNodes' = hn
        /\ highlightedEdges' = he
        /\ flowData' = d
        /\ loading' = l
        /\ appError' = e
        /\ fetches' = fetches + n
        /\ requests' = requests
              \cup (IF startFlow
                    THEN {[id |-> fetches + 1, kind |-> "flow", trace |-> FlowAsked(t, m)]}
                    ELSE {})
              \cup (IF startStatic
                    THEN {[id |-> fetches + n, kind |-> "static", trace |-> None]}
                    ELSE {})
        /\ CanvasCommit(d, hn, he, l, e)

\* handleSelectTrace(traceId): a click on a row of the trace list
HandleSelectTrace ==
    /\ ~crashed
    /\ \E tr \in TraceIds :
          AfterEvent(Some(tr), IF viewMode = "static" THEN "runtime" ELSE viewMode,
                     None, {}, {})
    /\ UNCHANGED <<chatVars, panelVars, repoVars, layoutVars>>

\* the Runtime and Static buttons: setViewMode(m)
SetViewMode ==
    /\ ~crashed
    /\ \E m \in {"runtime", "static"} :
          AfterEvent(selectedTraceId, m, selectedNode, highlightedNodes, highlightedEdges)
    /\ UNCHANGED <<chatVars, panelVars, repoVars, layoutVars>>

\* the timer of handleRecordComplete(traceId) fires: setSelectedTraceId(traceId)
RecordCompleteTimer ==
    /\ ~crashed
    /\ \E tr \in TraceIds :
          AfterEvent(Some(tr), viewMode, selectedNode, highlightedNodes, highlightedEdges)
    /\ UNCHANGED <<chatVars, panelVars, repoVars, layoutVars>>

\* a request settled: flow data d, error e, and loading is over
Settled(r, d, e) ==
    /\ requests' = requests \ {r}
    /\ flowData' = d
    /\ appError' = e
    /\ loading' = FALSE
    /\ CanvasCommit(d, highlightedNodes, highlightedEdges, FALSE, e)
    /\ UNCHANGED <<selectedTraceId, selectedNode, highlightedNodes, highlightedEdges,
                   viewMode, fetches>>
    /\ UNCHANGED <<chatVars, panelVars, repoVars, layoutVars>>

\* fetchFlow or fetchStatic after its await: setFlowData(data), setLoading(false)
FetchSucceeded ==
    /\ ~crashed
    /\ \E r \in requests, g \in FlowGraphs : Settled(r, FlowObject(r, g), appError)

\* the catch of fetchFlow: setError(message), setFlowData(null), setLoading(false)
FetchFlowFailed ==
    /\ ~crashed
    /\ \E r \in requests :
          /\ r.kind = "flow"
          /\ Settled(r, None, Some("Failed to fetch flow"))

\* the catch of fetchStatic: setError(message), setLoading(false)
FetchStaticFailed ==
    /\ ~crashed
    /\ \E r \in requests :
          /\ r.kind = "static"
          /\ Settled(r, flowData, Some("Failed to fetch static flow"))

\* NodeClick that also makes the clicked node the only highlighted one
NodeClickHighlighting ==
    /\ ~crashed
    /\ CanvasRendered(loading, appError)
    /\ flowData # None
    /\ \E i \in DOMAIN rfNodes :
          /\ selectedNode' = Some(styledNodes[i].data)
          /\ highlightedNodes' = {rfNodes[i].id}
    /\ highlightedEdges' = {}
    /\ UNCHANGED <<selectedTraceId, flowData, viewMode, loading, appError, requests,
                   fetches>>
    /\ UNCHANGED <<canvasVars, chatVars, panelVars, repoVars, layoutVars>>

\* handleNodeClick of the canvas, then of App: setSelectedNode(node.data); the
\* node is one of the nodes handed to ReactFlow
NodeClick ==
    /\ ~crashed
    /\ CanvasRendered(loading, appError)
    /\ flowData # None
    /\ \E i \in DOMAIN rfNodes : selectedNode' = Some(styledNodes[i].data)
    /\ UNCHANGED <<selectedTraceId, flowData, highlightedNodes, highlightedEdges,
                   viewMode, loading, appError, requests, fetches>>
    /\ UNCHANGED <<canvasVars, chatVars, panelVars, repoVars, layoutVars>>

----------------------------------------------------------------------------
(* ChatPanel.sendMessage *)

\* the highlights after a response: onHighlight is called, and handleHighlight
\* sets both lists, when the response names a node or an edge
HighlightAfter(resp, hn, he) ==
    IF resp.highlightNodes # {} \/ resp.highlightEdges # {}
    THEN <<resp.highlightNodes, resp.highlightEdges>>
    ELSE <<hn, he>>

\* what the user has typed into the chat input: a sequence of characters
InputTexts == {<<>>, <<" ">>, <<"h", "i">>, <<" ", "h", "i", " ">>}

\* String.prototype.trim: the text without its leading and trailing blanks
RECURSIVE Trim(_)
Trim(s) ==
    IF s = <<>> THEN s
    ELSE IF Head(s) = " " THEN Trim(Tail(s))
    ELSE IF s[Len(s)] = " " THEN Trim(SubSeq(s, 1, Len(s) - 1))
    ELSE s

\* the guard of sendMessage on the input: !input.trim() returns at once
Sends(text) == Trim(text) # <<>>

\* sendMessage up to its await, with the text the user typed: the user
\* message is appended, the input cleared, loading set and api.chat called.
\* (The messages are only displayed; no handler reads them.)
SendMessage ==
    /\ ~crashed
    /\ \E text \in InputTexts : Sends(text)
    /\ ~chatLoading
    /\ chatRequests < MaxChatRequests
    /\ chatRequests' = chatRequests + 1
    /\ chatLoading' = TRUE
    /\ lastResponse' = None
    /\ UNCHANGED <<pendingAction, proposed, executeCalls, executing, cancelledActions>>
    /\ UNCHANGED <<appVars, canvasVars, repoVars, layoutVars>>

\* the ActionRequest objects of a response: every response brings new ones
ActionObject(k) == [ident |-> k, actionType |-> "record_trace"]

\* response.actions of the next response: absent, or one or two actions
ActionLists ==
    {<<ActionObject(proposed + 1)>>,
     <<ActionObject(proposed + 1), ActionObject(proposed + 2)>>}

\* pendingAction after a response with actions acts: response.actions[0]
\* when there is one, whatever its requiresApproval says
PendingAfter(acts, pending) == IF Len(acts) > 0 THEN Some(acts[1]) ELSE pending

\* sendMessage after its await: the response resp with actions acts arrived;
\* highlights, pending action, and setLoading(false) in the finally
ChatAnswered(resp, acts) ==
    LET h == HighlightAfter(resp, highlightedNodes, highlightedEdges)
    IN  /\ ~crashed
        /\ chatRequests > 0
        /\ chatRequests' = chatRequests - 1
        /\ lastResponse' = Some(resp)
        /\ highlightedNodes' = h[1]
        /\ highlightedEdges' = h[2]
        /\ CanvasCommit(flowData, h[1], h[2], loading, appError)
        /\ pendingAction' = PendingAfter(acts, pendingAction)
        /\ proposed' = proposed + Len(acts)
        /\ chatLoading' = FALSE
        /\ UNCHANGED <<executeCalls, executing, cancelledActions>>
        /\ UNCHANGED <<selectedTraceId, flowData, selectedNode, viewMode, loading,
                       appError, requests, fetches>>
        /\ UNCHANGED <<repoVars, layoutVars>>

\* a response without actions
ChatResponse ==
    /\ chatRequests > 0
    /\ \E resp \in AgentResponses : ChatAnswered(resp, <<>>)

\* a response that asks for actions
ChatProposesAction ==
    \E resp \in AgentResponses, acts \in ActionLists :
        /\ proposed + Len(acts) <= MaxActions
        /\ ChatAnswered(resp, acts)

\* sendMessage after its await: the request failed
ChatFailed ==
    /\ ~crashed
    /\ chatRequests > 0
    /\ chatRequests' = chatRequests - 1
    /\ chatLoading' = FALSE
    /\ UNCHANGED <<pendingAction, proposed, executeCalls, executing, cancelledActions>>
    /\ UNCHANGED <<lastResponse, appVars, canvasVars, repoVars, layoutVars>>

----------------------------------------------------------------------------
(* ChatPanel: the approval of an action *)

\* the guard of handleApproveAction: if (!pendingAction) return; the Approve
\* button is there whenever pendingAction is set
Approvable(pending) == pending # None

\* handleApproveAction up to its await: a click on Approve sets loading and
\* calls api.executeAction for the pending action
HandleApproveAction ==
    /\ ~crashed
    /\ Approvable(pendingAction)
    /\ Len(executeCalls) < MaxCalls
    /\ executeCalls' = Append(executeCalls, pendingAction[1].ident)
    /\ executing' = executing \cup {Len(executeCalls) + 1}
    /\ chatLoading' = TRUE
    /\ UNCHANGED <<lastResponse, chatRequests, pendingAction, proposed, cancelledActions>>
    /\ UNCHANGED <<appVars, canvasVars, repoVars, layoutVars>>

\* handleApproveAction after its await: the call settled, with a result or
\* with an error; a result message or an error message is appended, and the
\* finally does setPendingAction(null), setLoading(false).  A result with a
\* traceId goes to onActionComplete, which is handleRecordComplete: its
\* timer is RecordCompleteTimer
ExecuteSettled ==
    /\ ~crashed
    /\ \E c \in executing : executing' = executing \ {c}
    /\ pendingAction' = None
    /\ chatLoading' = FALSE
    /\ UNCHANGED <<lastResponse, chatRequests, proposed, executeCalls, cancelledActions>>
    /\ UNCHANGED <<appVars, canvasVars, repoVars, layoutVars>>

\* handleRejectAction: a click on Cancel, there whenever pendingAction is set
HandleRejectAction ==
    /\ ~crashed
    /\ pendingAction # None
    /\ pendingAction' = None
    /\ cancelledActions' = cancelledActions \cup {pendingAction[1].ident}
    /\ UNCHANGED <<chatLoading, lastResponse, chatRequests, proposed, executeCalls,
                   executing>>
    /\ UNCHANGED <<appVars, canvasVars, repoVars, layoutVars>>

----------------------------------------------------------------------------
\* the layout part is idle while the page runs
LayoutIdle ==
    /\ pc = "idle"
    /\ nodes = <<>>
    /\ edges = <<>>
    /\ options = NoOptions
    /\ heap = <<>>
    /\ dagreGraph = NewGraph
    /\ ranks = <<>>
    /\ result = None
    /\ error = "none"

AppInit == LayoutIdle /\ PageAtMount

AppNext ==
    \/ HandleSelectTrace
    \/ SetViewMode
    \/ RecordCompleteTimer
    \/ FetchSucceeded
    \/ FetchFlowFailed
    \/ FetchStaticFailed
    \/ NodeClick
    \/ SendMessage
    \/ ChatResponse
    \/ ChatFailed

AppSpec == AppInit /\ [][AppNext]_vars

----------------------------------------------------------------------------
(* RepoInput and App's activeRepo *)

\* the RepoInfo a reply carries: the one repository, in status st
RepoInfoOf(st) == Some([repoId |-> "r1", status |-> st])

\* RepoInfo.status
RepoStatuses == {"analyzing", "ready", "building", "running", "stopped", "error"}

\* the statuses a successful reply of each endpoint reports: the analysis
\* has begun, is done or has failed; GET reports whatever the repository is
\* in; the container is being built, runs or has failed; the container has
\* stopped
RepoReplies(kind) ==
    CASE kind = "analyze" -> {"analyzing", "ready", "error"}
      [] kind = "status"  -> RepoStatuses
      [] kind = "start"   -> {"building", "running", "error"}
      [] kind = "stop"    -> {"stopped"}

\* the fallback messages of the four catch clauses
RepoFailureMessage(kind) ==
    CASE kind = "analyze" -> "Failed to analyze repo"
      [] kind = "status"  -> "Failed to get status"
      [] kind = "start"   -> "Failed to start repo"
      [] kind = "stop"    -> "Failed to stop repo"

\* a call of kind k has been made
RepoCalled(k) ==
    /\ repoCalls < MaxRepoCalls
    /\ repoCalls' = repoCalls + 1
    /\ repoRequests' = repoRequests \cup {[id |-> repoCalls + 1, kind |-> k]}

\* request r has settled and the handler follows up with pollStatus(repoId)
\* when poll holds: pollStatus calls api.getRepo at once
RepoSettled(r, poll) ==
    IF poll
    THEN /\ repoCalls < MaxRepoCalls
         /\ repoCalls' = repoCalls + 1
         /\ repoRequests' = (repoRequests \ {r}) \cup {[id |-> repoCalls + 1, kind |-> "status"]}
    ELSE /\ repoRequests' = repoRequests \ {r}
         /\ UNCHANGED repoCalls

\* App's activeRepo after handleStop got the reply info: setRepo(result) only
ActiveRepoAfterStop(info, active) == active

\* handleAnalyze up to its await; the button is disabled while loading or
\* while the url is blank
HandleAnalyze ==
    /\ ~crashed
    /\ ~repoLoading
    /\ \E url \in InputTexts : Trim(url) # <<>>
    /\ repoLoading' = TRUE
    /\ repoError' = None
    /\ RepoCalled("analyze")
    /\ UNCHANGED <<repo, pollTimers, activeRepo>>
    /\ UNCHANGED <<appVars, canvasVars, chatVars, panelVars, layoutVars>>

\* handleAnalyze after its await: setRepo(result), pollStatus while analyzing
AnalyzeSettled ==
    /\ ~crashed
    /\ \E r \in repoRequests, st \in RepoReplies("analyze") :
          /\ r.kind = "analyze"
          /\ repo' = RepoInfoOf(st)
          /\ RepoSettled(r, st = "analyzing")
    /\ repoLoading' = FALSE
    /\ UNCHANGED <<repoError, pollTimers, activeRepo>>
    /\ UNCHANGED <<appVars, canvasVars, chatVars, panelVars, layoutVars>>

\* pollStatus after its await: setRepo(result); a timer for the next poll
\* while analyzing or building; onRepoReady(result), which is App's
\* handleRepoReady: setActiveRepo(repo), when ready or running
PollSettled ==
    /\ ~crashed
    /\ \E r \in repoRequests, st \in RepoReplies("status") :
          /\ r.kind = "status"
          /\ repo' = RepoInfoOf(st)
          /\ pollTimers' = IF st \in {"analyzing", "building"}
                           THEN pollTimers + 1 ELSE pollTimers
          /\ activeRepo' = IF st \in {"ready", "running"}
                           THEN RepoInfoOf(st) ELSE activeRepo
          /\ RepoSettled(r, FALSE)
    /\ UNCHANGED <<repoLoading, repoError>>
    /\ UNCHANGED <<appVars, canvasVars, chatVars, panelVars, layoutVars>>

\* the timer set by pollStatus fires: pollStatus(repoId)
PollTimer ==
    /\ ~crashed
    /\ pollTimers > 0
    /\ pollTimers' = pollTimers - 1
    /\ RepoCalled("status")
    /\ UNCHANGED <<repo, repoLoading, repoError, activeRepo>>
    /\ UNCHANGED <<appVars, canvasVars, chatVars, panelVars, layoutVars>>

\* handleStart up to its await; the Start button is there while the status
\* shown is 'ready'
HandleStart ==
    /\ ~crashed
    /\ repo # None
    /\ repo[1].status = "ready"
    /\ repoLoading' = TRUE
    /\ RepoCalled("start")
    /\ UNCHANGED <<repo, repoError, pollTimers, activeRepo>>
    /\ UNCHANGED <<appVars, canvasVars, chatVars, panelVars, layoutVars>>

\* handleStart after its await: setRepo(result); pollStatus while building,
\* onRepoReady(result) when running
StartSettled ==
    /\ ~crashed
    /\ \E r \in repoRequests, st \in RepoReplies("start") :
          /\ r.kind = "start"
          /\ repo' = RepoInfoOf(st)
          /\ activeRepo' = IF st = "running" THEN RepoInfoOf(st) ELSE activeRepo
          /\ RepoSettled(r, st = "building")
    /\ repoLoading' = FALSE
    /\ UNCHANGED <<repoError, pollTimers>>
    /\ UNCHANGED <<appVars, canvasVars, chatVars, panelVars, layoutVars>>

\* handleStop up to its await; the Stop button is there while the status
\* shown is 'running'
HandleStop ==
    /\ ~crashed
    /\ repo # None
    /\ repo[1].status = "running"
    /\ repoLoading' = TRUE
    /\ RepoCalled("stop")
    /\ UNCHANGED <<repo, repoError, pollTimers, activeRepo>>
    /\ UNCHANGED <<appVars, canvasVars, chatVars, panelVars, layoutVars>>

\* handleStop after its await: setRepo(result)
StopSettled ==
    /\ ~crashed
    /\ \E r \in repoRequests, st \in RepoReplies("stop") :
          /\ r.kind = "stop"
          /\ repo' = RepoInfoOf(st)
          /\ activeRepo' = ActiveRepoAfterStop(RepoInfoOf(st), activeRepo)
          /\ RepoSettled(r, FALSE)
    /\ repoLoading' = FALSE
    /\ UNCHANGED <<repoError, pollTimers>>
    /\ UNCHANGED <<appVars, canvasVars, chatVars, panelVars, layoutVars>>

\* a call failed: the catch sets the error; the finally of the three
\* handlers sets loading false, pollStatus has none
RepoRequestFailed ==
    /\ ~crashed
    /\ \E r \in repoRequests :
          /\ repoError' = Some(RepoFailureMessage(r.kind))
          /\ repoLoading' = IF r.kind = "status" THEN repoLoading ELSE FALSE
          /\ RepoSettled(r, FALSE)
    /\ UNCHANGED <<repo, pollTimers, activeRepo>>
    /\ UNCHANGED <<appVars, canvasVars, chatVars, panelVars, layoutVars>>

\* the header badge and RecordButton's isRepoActive
RepoShownRunning == activeRepo # None /\ activeRepo[1].status = "running"

RepoNext ==
    \/ HandleAnalyze
    \/ AnalyzeSettled
    \/ PollSettled
    \/ PollTimer
    \/ HandleStart
    \/ StartSettled
    \/ HandleStop
    \/ StopSettled
    \/ RepoRequestFailed

RepoSpec == AppInit /\ [][RepoNext]_vars

\* ChatPanel on the page, with the canvas at rest
ChatNext ==
    \/ SendMessage
    \/ ChatResponse
    \/ ChatProposesAction
    \/ ChatFailed
    \/ HandleApproveAction
    \/ ExecuteSettled
    \/ HandleRejectAction

ChatSpec == AppInit /\ [][ChatNext]_vars

----------------------------------------------------------------------------
(* Vocabulary of the properties *)

Called == pc # "idle"
Returned == pc = "done"

Given == Destructure(options)
DefaultOptions == options = Opt(Undefined, None, None)

\* the configuration the design document allows
ValidOptions ==
    Given.direction \in Directions /\ Given.nodeSpacing > 0 /\ Given.rankSpacing > 0

InputId(i) == heap[nodes[i]].id
InputIds == {InputId(i) : i \in DOMAIN nodes}
EdgePairs == {<<edges[i].source, edges[i].target>> : i \in DOMAIN edges}

\* some edge names an id that no node carries
Dangling == \E e \in EdgePairs : e[1] \notin InputIds \/ e[2] \notin InputIds

RECURSIVE Closure(_)
\* the transitive closure of a relation
Closure(R) ==
    LET R2 == R \cup {<<p[1][1], p[2][2]>> : p \in {q \in R \X R : q[1][2] = q[2][1]}}
    IN  IF R2 = R THEN R ELSE Closure(R2)

\* the edge list has a directed cycle (a self-loop is one)
Cyclic == \E e \in Closure(EdgePairs) : e[1] = e[2]

\* the node the call returned at index i, and the returned position of id v
OutNode(i) == heap[result[1].nodes[i]]
OutPos(v) == OutNode(CHOOSE i \in DOMAIN nodes : InputId(i) = v).position

Horizontal == Given.direction \in {"LR", "RL"}
\* the coordinate along the axis the ranks are stacked on, and across it
Primary(v) == IF Horizontal THEN OutPos(v).x ELSE OutPos(v).y
Cross(v) == IF Horizontal THEN OutPos(v).y ELSE OutPos(v).x
Abs(n) == IF n < 0 THEN 0 - n ELSE n

----------------------------------------------------------------------------
\* C2: the returned node list has the length of the input list, and at every
\* index the returned node carries the id, type and data of the input node
\* at that index.
OutputPreservesNodes ==
    Returned =>
        /\ Len(result[1].nodes) = Len(nodes)
        /\ \A i \in DOMAIN nodes :
              /\ OutNode(i).id = heap[nodes[i]].id
              /\ OutNode(i).type = heap[nodes[i]].type
              /\ OutNode(i).data = heap[nodes[i]].data

\* a call returned three nodes, laid out away from their input positions
OutputPreservesNodesWitness ==
    /\ Returned
    /\ Len(nodes) = 3
    /\ \A i \in DOMAIN nodes : OutNode(i).position # heap[nodes[i]].position

\* C7: the layout of no nodes and no edges returns no nodes and no edges,
\* and throws nothing.
EmptyInput ==
    (Called /\ nodes = <<>> /\ edges = <<>>) =>
        /\ pc = "done"
        /\ error = "none"
        /\ result = Some([nodes |-> <<>>, edges |-> <<>>])

EmptyInputWitness == Returned /\ nodes = <<>> /\ edges = <<>> /\ result # None

\* C9: every returned position is the center that the layout computed,
\* minus half the footprint 220 x 80: x = centerX - 110, y = centerY - 40.
CenterToTopLeft ==
    Returned =>
        \A i \in DOMAIN nodes :
            /\ OutNode(i).position.x = dagreGraph.label[InputId(i)][1].x - 110
            /\ OutNode(i).position.y = dagreGraph.label[InputId(i)][1].y - 40

\* a left-to-right layout of at least two nodes returned
CenterToTopLeftWitness ==
    Returned /\ Len(nodes) >= 2 /\ Given.direction = "LR" /\ edges # <<>>

\* C10: no step changes an input node object or the edge list, and the
\* nodes a call returns are objects that were not in the input.
InputNotMutated ==
    [][ /\ \A r \in DOMAIN heap : r \in DOMAIN heap' /\ heap'[r] = heap[r]
        /\ nodes' = nodes
        /\ edges' = edges
        /\ pc' = "done" => Range(result'[1].nodes) \cap Range(nodes) = {} ]_vars

\* a call returned nodes whose positions differ from the input positions
InputNotMutatedWitness ==
    /\ Returned
    /\ nodes # <<>>
    /\ \A i \in DOMAIN nodes :
          /\ heap[nodes[i]].position = [x |-> 0, y |-> 0]
          /\ OutNode(i).position # heap[nodes[i]].position

\* C5 as stated: in an acyclic graph the primary-axis coordinate of v is
\* greater than that of u for every edge u -> v, whatever the direction.
PrimaryAxisIncreases ==
    (Returned /\ ValidOptions /\ ~Cyclic) =>
        \A e \in EdgePairs :
            /\ ranks[e[2]] > ranks[e[1]]
            /\ (e[1] \in InputIds /\ e[2] \in InputIds) => Primary(e[2]) > Primary(e[1])

\* C5, amended: in an acyclic graph rank(v) > rank(u) for every edge u -> v;
\* the primary-axis coordinate of v is greater than that of u for the
\* directions TB and LR and smaller for BT and RL; the chain A -> B -> C
\* with default options gets ranks 0, 1, 2 and increasing y.
RankMonotonicity ==
    /\ (Returned /\ ValidOptions /\ ~Cyclic) =>
          \A e \in EdgePairs :
              /\ ranks[e[2]] > ranks[e[1]]
              /\ (e[1] \in InputIds /\ e[2] \in InputIds) =>
                    IF Given.direction \in {"TB", "LR"}
                    THEN Primary(e[2]) > Primary(e[1])
                    ELSE Primary(e[2]) < Primary(e[1])
    /\ (Returned /\ DefaultOptions /\ InputIds = {"A", "B", "C"}
          /\ EdgePairs = {<<"A", "B">>, <<"B", "C">>}) =>
          /\ ranks["A"] = 0 /\ ranks["B"] = 1 /\ ranks["C"] = 2
          /\ OutPos("A").y < OutPos("B").y /\ OutPos("B").y < OutPos("C").y

\* the chain A -> B -> C was laid out with default options
RankMonotonicityWitness ==
    /\ Returned /\ DefaultOptions /\ InputIds = {"A", "B", "C"}
    /\ EdgePairs = {<<"A", "B">>, <<"B", "C">>}

\* C6: two distinct nodes of one rank are at least nodeSpacing plus the
\* footprint apart across the rank axis; the fan-out A -> B, A -> C puts
\* B and C in rank 1, at least nodeSpacing apart.
NoOverlap ==
    /\ (Returned /\ ValidOptions) =>
          \A u, v \in InputIds :
              (u # v /\ ranks[u] = ranks[v]) =>
                  Abs(Cross(u) - Cross(v)) >=
                      Given.nodeSpacing + (IF Horizontal THEN NODE_HEIGHT ELSE NODE_WIDTH)
    /\ (Returned /\ ValidOptions /\ InputIds = {"A", "B", "C"}
          /\ EdgePairs = {<<"A", "B">>, <<"A", "C">>}) =>
          /\ ranks["B"] = 1 /\ ranks["C"] = 1
          /\ Cross("B") # Cross("C")
          /\ Abs(Cross("B") - Cross("C")) >= Given.nodeSpacing

\* the fan-out A -> B, A -> C was laid out left to right, with spacings
\* off the defaults
NoOverlapWitness ==
    /\ Returned /\ ValidOptions /\ Horizontal /\ Given.nodeSpacing = 60
    /\ InputIds = {"A", "B", "C"}
    /\ EdgePairs = {<<"A", "B">>, <<"A", "C">>}
    /\ ranks["B"] = ranks["C"]

\* C8: the layout of a graph with a cycle comes to an end, throws nothing
\* and returns a position for every input node.
CyclicGraphLaidOut ==
    (Called /\ Cyclic) =>
        /\ pc = "done"
        /\ error = "none"
        /\ result # None
        /\ Len(result[1].nodes) = Len(nodes)
        /\ \A i \in DOMAIN nodes :
              OutNode(i).position = TopLeft(dagreGraph.label[InputId(i)][1])

\* a two-node cycle between input nodes was laid out
CyclicGraphLaidOutWitness ==
    /\ Returned
    /\ \E u, v \in InputIds : u # v /\ <<u, v>> \in EdgePairs /\ <<v, u>> \in EdgePairs

\* C3: an edge that names an id absent from the node list makes the call
\* fail with a ReferentialIntegrityError and return nothing.
DanglingEdgeRejected ==
    (Called /\ Dangling) => (error = "ReferentialIntegrityError" /\ result = None)

\* C4: a spacing that is not positive, or a direction outside TB, LR, BT, RL,
\* makes the call fail with InvalidConfiguration before anything is ranked.
InvalidOptionsRejected ==
    (Called /\ ~ValidOptions) =>
        (error = "InvalidConfiguration" /\ result = None /\ ranks = <<>>)

\* C11: the edge list a call returns is the input edge list: the same edges
\* in the same order, with the same id, source, target and animated values.
EdgesReturnedAsIs ==
    Returned =>
        /\ result[1].edges = edges
        /\ Len(result[1].edges) = Len(edges)
        /\ \A i \in DOMAIN edges :
              /\ result[1].edges[i].id = EdgeId(i)
              /\ result[1].edges[i].animated = (i = 1)

\* a call returned with an animated self-loop and a second edge in the input
EdgesReturnedAsIsWitness ==
    /\ Returned
    /\ Len(edges) >= 2
    /\ edges[1].source = edges[1].target
    /\ edges[1].animated

----------------------------------------------------------------------------
(* The highlight overlay of the canvas (AppSpec) *)

\* the ids of the nodes the canvas holds
CanvasNodeIds == {rfNodes[i].id : i \in DOMAIN rfNodes}
\* the canvas shows the three-node trace graph
ShowsTraceGraph == ~crashed /\ flowData # None /\ Len(rfNodes) = 3 /\ Len(rfEdges) = 3

\* C12: after the overlay every node's highlighted flag is true exactly when
\* its id is in the highlighted-node set; ids in the set that name no node
\* change nothing and raise nothing.
NodeHighlightMatchesSet ==
    /\ DOMAIN styledNodes = DOMAIN rfNodes
    /\ \A i \in DOMAIN rfNodes :
          styledNodes[i].data.highlighted = (rfNodes[i].id \in highlightedNodes)
    /\ styledNodes = StyleNodes(rfNodes, highlightedNodes \cap CanvasNodeIds)
    /\ (highlightedNodes # {} /\ layoutError = "none") => ~crashed

\* the trace graph is shown with "B" and the unknown "X" highlighted: B is
\* emphasised, A and C are not
NodeHighlightMatchesSetWitness ==
    /\ ShowsTraceGraph
    /\ highlightedNodes = {"B", "X"}
    /\ \A i \in DOMAIN styledNodes :
          styledNodes[i].data.highlighted = (styledNodes[i].id = "B")

\* the animated flag the API sent for the i-th edge of the flow shown
OriginalAnimated(i) == flowData[1].edges[i].animated

\* C13: after the overlay an edge is animated exactly when its id is in the
\* highlighted-edge set or the edge came animated: a highlighted edge is
\* animated and drawn emphasised, any other edge keeps the flag it came with.
EdgeAnimatedIsHighlightOrOriginal ==
    \A i \in DOMAIN styledEdges :
        LET inH == rfEdges[i].id \in highlightedEdges
        IN  /\ rfEdges[i].id = flowData[1].edges[i].id
            /\ Truthy(styledEdges[i].animated) = (inH \/ Truthy(OriginalAnimated(i)))
            /\ inH => /\ styledEdges[i].animated = Some(TRUE)
                      /\ styledEdges[i].style = [stroke |-> "#d29922", strokeWidth |-> 3]
            /\ ~inH => /\ styledEdges[i].animated = OriginalAnimated(i)
                       /\ styledEdges[i].style = [stroke |-> "#30363d", strokeWidth |-> 2]

\* the trace graph with edge 2 (sent without the flag) and the unknown edge 9
\* highlighted: edge 2 is animated by the highlight, edge 1 by its own flag,
\* edge 3 is not animated
EdgeAnimatedIsHighlightOrOriginalWitness ==
    /\ ShowsTraceGraph
    /\ highlightedEdges = {EdgeId(2), EdgeId(9)}
    /\ OriginalAnimated(2) = None /\ styledEdges[2].animated = Some(TRUE)
    /\ OriginalAnimated(1) = Some(TRUE) /\ styledEdges[1].animated = Some(TRUE)
    /\ styledEdges[3].animated = Some(FALSE)

\* C14: the overlay never changes a node's id or position, nor an edge's id,
\* source or target.
OverlayKeepsGeometry ==
    /\ DOMAIN styledNodes = DOMAIN rfNodes
    /\ DOMAIN styledEdges = DOMAIN rfEdges
    /\ \A i \in DOMAIN rfNodes :
          /\ styledNodes[i].id = rfNodes[i].id
          /\ styledNodes[i].position = rfNodes[i].position
    /\ \A i \in DOMAIN rfEdges :
          /\ styledEdges[i].id = rfEdges[i].id
          /\ styledEdges[i].source = rfEdges[i].source
          /\ styledEdges[i].target = rfEdges[i].target

\* the trace graph laid out away from the origin, with a node and an edge
\* that the overlay emphasised
OverlayKeepsGeometryWitness ==
    /\ ShowsTraceGraph
    /\ \E i \in DOMAIN rfNodes :
          /\ styledNodes[i].data.highlighted
          /\ rfNodes[i].position # [x |-> 0, y |-> 0]
    /\ \E i \in DOMAIN rfEdges : styledEdges[i].style # rfEdges[i].style

\* C15: changing the highlight sets never re-runs the layout.  The canvas
\* calls applyDagreLayout only in a step that changes the identity of the flow
\* data, and a step that changes a highlight set of a canvas that stays on
\* screen with the same data leaves the call count, the nodes state and every
\* position as they were.
HighlightNeverRelayouts ==
    [][/\ layoutCalls' # layoutCalls => flowData' # flowData
       /\ ( /\ highlightedNodes' # highlightedNodes \/ highlightedEdges' # highlightedEdges
            /\ UNCHANGED <<flowData, loading, appError>> )
          => /\ layoutCalls' = layoutCalls
             /\ rfNodes' = rfNodes
             /\ \A i \in DOMAIN rfNodes :
                   styledNodes'[i].position = styledNodes[i].position]_vars

\* the trace graph was laid out once, a node was clicked while "B" was
\* highlighted, and a later turn changed the highlights to the unknown "X"
HighlightNeverRelayoutsWitness ==
    /\ ShowsTraceGraph
    /\ layoutCalls = 1
    /\ selectedNode # None
    /\ selectedNode[1].highlighted
    /\ highlightedNodes = {"X"}
    /\ lastResponse = Some([highlightNodes |-> {"X"}, highlightEdges |-> {}])

\* C16: after every assistant turn the highlight sets are exactly the ids of
\* that turn's response, replacing what was highlighted before, a response
\* that highlights nothing included.
HighlightsFollowEveryTurn ==
    [][(lastResponse' # lastResponse /\ lastResponse' # None)
          => /\ highlightedNodes' = lastResponse'[1].highlightNodes
             /\ highlightedEdges' = lastResponse'[1].highlightEdges]_vars

\* a step in which a node was clicked and became the selected node
ClickStep == selectedNode' # selectedNode /\ selectedNode' # None

EmptyHighlightIsNoOp ==
    LET ns == StyleNodes(rfNodes, {})
        es == StyleEdges(rfEdges, {})
    IN  /\ DOMAIN ns = DOMAIN rfNodes
        /\ \A i \in DOMAIN rfNodes :
              /\ ns[i].id = rfNodes[i].id
              /\ ns[i].position = rfNodes[i].position
              /\ ns[i].data.highlighted = FALSE
        /\ DOMAIN es = DOMAIN rfEdges
        /\ \A i \in DOMAIN rfEdges :
              /\ es[i].id = rfEdges[i].id
              /\ es[i].source = rfEdges[i].source
              /\ es[i].target = rfEdges[i].target
              /\ es[i].animated = rfEdges[i].animated
              /\ es[i].animated = OriginalAnimated(i)
        /\ (highlightedNodes = {} /\ highlightedEdges = {})
              => styledNodes = ns /\ styledEdges = es

\* the trace graph is shown with nothing highlighted after a chat turn; its
\* edges came animated, not animated and without the flag
EmptyHighlightIsNoOpWitness ==
    /\ ShowsTraceGraph
    /\ highlightedNodes = {} /\ highlightedEdges = {}
    /\ lastResponse # None
    /\ styledEdges[1].animated = Some(TRUE)
    /\ styledEdges[2].animated = None
    /\ styledEdges[3].animated = Some(FALSE)

\* C19: the overlay is idempotent: applied with the highlight sets to its own
\* result it gives the same nodes and edges (the same highlighted, animated
\* and style values) as applied once.
OverlayIdempotent ==
    /\ StyleNodes(styledNodes, highlightedNodes) = styledNodes
    /\ StyleEdges(styledEdges, highlightedEdges) = styledEdges
    /\ \A i \in DOMAIN styledEdges :
          LET twice == StyleEdges(styledEdges, highlightedEdges)[i]
          IN  /\ twice.animated = styledEdges[i].animated
              /\ twice.style = styledEdges[i].style
    /\ \A i \in DOMAIN styledNodes :
          StyleNodes(styledNodes, highlightedNodes)[i].data.highlighted
              = styledNodes[i].data.highlighted

\* the trace graph with "B" and edge 2 highlighted: the overlay changed the
\* flag of edge 2 and the style it is drawn with
OverlayIdempotentWitness ==
    /\ ShowsTraceGraph
    /\ highlightedNodes = {"B"}
    /\ EdgeId(2) \in highlightedEdges
    /\ styledEdges[2].animated # rfEdges[2].animated
    /\ styledEdges[2].style # rfEdges[2].style

\* C20: when the layout call of the canvas throws, the page turns the failure
\* into an error message the user sees and keeps working; the error never
\* leaves the canvas uncaught.
LayoutFailureIsShown ==
    layoutError # "none" => (~crashed /\ appError # None)

\* the kind the API sent for the i-th node of the flow shown
OriginalKind(i) == flowData[1].nodes[1][i].type

\* C21: a node whose kind names no registered template is drawn with a
\* default template and rendering does not fail: a kind such as "service"
\* gets the library's default node, a node without a kind gets the span
\* template, and only a layout failure takes the page down.
UnknownKindFallsBack ==
    /\ DOMAIN renderedTemplates = DOMAIN rfNodes
    /\ \A i \in DOMAIN rfNodes :
          /\ rfNodes[i].type # ""
          /\ renderedTemplates[i] \in {"SpanNode", "default"}
          /\ OriginalKind(i) \in NodeTypes \cup {""} => renderedTemplates[i] = "SpanNode"
          /\ OriginalKind(i) \notin NodeTypes \cup {""} => renderedTemplates[i] = "default"
    /\ crashed => layoutError # "none"

\* the trace graph is shown: "B" came as a "service" and is drawn with the
\* default node, "C" came without a kind and is drawn as a span
UnknownKindFallsBackWitness ==
    /\ ShowsTraceGraph
    /\ \E i \in DOMAIN rfNodes :
          /\ rfNodes[i].id = "B" /\ OriginalKind(i) = "service"
          /\ renderedTemplates[i] = "default"
    /\ \E i \in DOMAIN rfNodes :
          /\ rfNodes[i].id = "C" /\ OriginalKind(i) = ""
          /\ renderedTemplates[i] = "SpanNode"

\* nothing is being fetched and no error is shown
FetchesSettled == requests = {} /\ appError = None

\* C23: once no fetch is in flight and no error is shown, the flow shown in
\* runtime mode is the graph fetched for the trace that is selected now: a
\* reply to the request made for an earlier selection has not replaced it.
FlowIsOfSelectedTrace ==
    (/\ FetchesSettled
     /\ viewMode = "runtime"
     /\ selectedTraceId # None
     /\ flowData # None)
    => flowData[1].trace = selectedTraceId

\* C24: every step that changes selectedTraceId to a different trace (a
\* click in the trace list, the timer of a completed recording or of an
\* approved action) leaves highlightedNodes and highlightedEdges empty and
\* selectedNode null.
TraceChangeClearsSelection ==
    [][(selectedTraceId' # selectedTraceId /\ selectedTraceId' # None)
        => /\ highlightedNodes' = {}
           /\ highlightedEdges' = {}
           /\ selectedNode' = None]_vars

\* C27: loading is true whenever at least one flow fetch is in flight.
LoadingWhileFetching == requests # {} => loading

----------------------------------------------------------------------------
(* The approval of actions *)

\* the actions api.executeAction has been called for
ExecutedActions == {executeCalls[c] : c \in DOMAIN executeCalls}

\* C22: api.executeAction is called only on approval: every step that makes
\* a call is a click on Approve while an action is pending and calls for
\* that action, and no action the user has cancelled is ever among the
\* executed ones.
ExecutedOnlyWhenApproved ==
    [][/\ executeCalls' # executeCalls
          => /\ pendingAction # None
             /\ executeCalls' = Append(executeCalls, pendingAction[1].ident)
       /\ cancelledActions' \cap {executeCalls'[c] : c \in DOMAIN executeCalls'} = {}]_vars

\* C25: each pending action is executed at most once: api.executeAction is
\* never called twice for the same pending action, also when Approve is
\* clicked again while the first call is in flight.
ExecutedAtMostOnce ==
    \A c, d \in DOMAIN executeCalls : executeCalls[c] = executeCalls[d] => c = d

\* C26: at most one chat request is in flight; a request is issued only by a
\* sendMessage that found loading false (and a non-blank input); and loading
\* is true for as long as a chat request is outstanding, also when an
\* approval starts or finishes meanwhile.
OneChatRequestAtATime ==
    [][/\ chatRequests' <= 1
       /\ chatRequests' > chatRequests => ~chatLoading
       /\ chatRequests' > 0 => chatLoading']_vars

----------------------------------------------------------------------------
(* The active repository *)

\* C28: App never shows a repository as running that RepoInput knows not to
\* run: whenever App's activeRepo has status 'running' (the running badge,
\* the repo endpoints of RecordButton), the latest RepoInfo RepoInput holds
\* has status 'running' too.
ActiveRepoNeverStale ==
    RepoShownRunning => repo # None /\ repo[1].status = "running"

====
